---- MODULE Spec2Model ----
(***************************************************************************)
(* Model of the browser-side scripts of nonchalant-hl-bot:                 *)
(*   - the navigation drawer (src/unnamed/part_000),                       *)
(*   - the wallet-connect widget (src/static/js/wallet-connect.js),        *)
(*   - the monitoring table (second function of wallet-connect.js).        *)
(* The scripts share no state; each has its own specification              *)
(* (SpecDrawer, SpecWallet, SpecMonitor) over the module's variables.      *)
(***************************************************************************)
EXTENDS Integers, Sequences, FiniteSets

VARIABLES
  \* ---- navigation drawer (part_000) ----
  hidden,             \* drawer.hidden
  lastActiveElement,  \* let lastActiveElement (line 17)
  activeElement,      \* document.activeElement
  ariaExpanded,       \* aria-expanded of every [data-nav-toggle] control
  navOpenClass,       \* body.classList contains "is-nav-open"
  keydownListener,    \* handleKeydown registered on document
  clickListener,      \* handleClickOutside registered on document (capture)
  present,            \* drawer descendants matching focusableSelector and rendered
  narrow,             \* matchMedia("(max-width: 1024px)").matches
  lastOp,             \* history: the last operation and what it saw
  focusBeforeOpen,    \* history: document.activeElement just before the last opening
  trapOnly,           \* history: only Tab / redundant open since the last opening
  \* ---- wallet connect (wallet-connect.js) ----
  modal,              \* let modal: TRUE when createModal returned a Web3Modal
  ethereum,           \* window.ethereum is present
  provider,           \* let provider
  signer,             \* let signer
  walletAddress,      \* let walletAddress
  saving,             \* let saving
  buttonText,         \* button.textContent
  buttonClass,        \* which of ui-button--primary / --secondary the button carries
  connectBound,       \* click listeners of the button that are api.handleConnectClick
  disconnectBound,    \* click listeners of the button that are api.handleDisconnectClick
  datasetAddress,     \* button.dataset.connectedAddress
  addrText,           \* addressTarget.textContent
  addrState,          \* addressTarget.dataset.state
  accountsListener,   \* api.handleAccountsChanged registered on window.ethereum
  initPc,             \* where api.init stands
  tasks,              \* the handlers suspended at an await, as a bag
  serverSession,      \* the address the session endpoint holds
  lastRoundTrip,      \* history: result of the last successful session round trip
  wLast,              \* history: the last step of the wallet module
  \* ---- monitoring table (wallet-connect.js, second function) ----
  readyState,         \* document.readyState
  domListener,        \* connectSSE registered for DOMContentLoaded
  started,            \* the monitor script has run
  hasEventSource,     \* the browser defines EventSource
  tbody,              \* the page holds the element with id monitor-rows
  rows,               \* the rendered run rows of the table body, in order
  placeholder,        \* the empty-state row (holding .cell-empty) is in the table body
  esOpen,             \* EventSource objects created and not closed
  timers,             \* pending setTimeout(connectSSE, delay) calls, as their delays
  uncaught,           \* an exception has left a handler of the monitor
  latest,             \* history: per run_id the last snapshot upserted, or NoSnapshot
  errorCount,         \* history: stream errors so far
  openedCount,        \* history: connections opened so far
  mLast               \* history: the last step of the monitor

drawerVars == <<hidden, lastActiveElement, activeElement, ariaExpanded, navOpenClass,
                keydownListener, clickListener, present, narrow, lastOp,
                focusBeforeOpen, trapOnly>>

walletVars == <<modal, ethereum, provider, signer, walletAddress, saving, buttonText,
                buttonClass, connectBound, disconnectBound, datasetAddress, addrText,
                addrState, accountsListener, initPc, tasks, serverSession,
                lastRoundTrip, wLast>>

monitorVars == <<readyState, domListener, started, hasEventSource, tbody, rows,
                 placeholder, esOpen, timers, uncaught, latest, errorCount,
                 openedCount, mLast>>

vars == <<drawerVars, walletVars, monitorVars>>

(***************************************************************************)
(* The page of the drawer.  Two toggle controls carry data-nav-toggle: one *)
(* in the page header (outside the drawer) and one inside the drawer; the  *)
(* drawer further holds two links.  "other" is a focusable element of the  *)
(* page outside the drawer, "page" and "panel" are non-focusable areas     *)
(* outside and inside the drawer.  "body" is what document.activeElement   *)
(* is when nothing is focused, "null" the initial lastActiveElement.       *)
(***************************************************************************)
Toggles == {"toggleOut", "toggleIn"}
DrawerLinks == {"link1", "link2"}
DrawerEls == {"link1", "link2", "toggleIn"}
OutsideEls == {"toggleOut", "other"}
DocOrder == <<"toggleOut", "link1", "link2", "toggleIn", "other">>
ClickTargets == {"toggleOut", "toggleIn", "link1", "link2", "other", "page", "panel"}
Keys == {"Escape", "Tab", "Enter"}

\* drawer.contains(el)
InDrawer(el) == el \in DrawerEls \cup {"panel"}

\* The script's state as one value, so that the functions of the script compose.
DrawerState ==
  [hidden |-> hidden, lastActiveElement |-> lastActiveElement,
   activeElement |-> activeElement, ariaExpanded |-> ariaExpanded,
   navOpenClass |-> navOpenClass, keydownListener |-> keydownListener,
   clickListener |-> clickListener, present |-> present, narrow |-> narrow]

\* getFocusable(): the drawer's descendants matching the selector, in document
\* order, whose offsetParent is not null (none while the drawer is hidden).
getFocusable(s) ==
  SelectSeq(DocOrder, LAMBDA e : e \in DrawerEls /\ e \in s.present /\ ~s.hidden)

Range(f) == {f[i] : i \in 1..Len(f)}

\* Whether el can take focus now: the page's own elements always, a drawer
\* element while it is rendered, the body and non-elements never.
Focusable(s, el) == el \in OutsideEls \/ el \in Range(getFocusable(s))

\* el.focus(): moves focus when el can take it, else does nothing.
focus(s, el) == IF Focusable(s, el) THEN [s EXCEPT !.activeElement = el] ELSE s

\* Variant of setAria that reaches only the toggle in the page header.
setAriaFirstOnly(s, expanded) ==
  [s EXCEPT !.ariaExpanded["toggleOut"] = IF expanded THEN "true" ELSE "false"]

\* setAria(expanded)
setAria(s, expanded) ==
  [s EXCEPT !.ariaExpanded = [b \in Toggles |-> IF expanded THEN "true" ELSE "false"]]

\* A plausible slip: the early return of openDrawer left out.
openDrawerNoGuard(s) ==
  LET s1 == setAria([s EXCEPT !.lastActiveElement = s.activeElement,
                              !.hidden = FALSE, !.navOpenClass = TRUE], TRUE)
      f  == getFocusable(s1)
      s2 == IF Len(f) > 0 THEN focus(s1, f[1]) ELSE s1
  IN [s2 EXCEPT !.keydownListener = TRUE, !.clickListener = TRUE]

\* A plausible slip: the guard of openDrawer inverted.
openDrawerInverted(s) == IF s.hidden THEN s ELSE openDrawerNoGuard(s)

\* openDrawer()
openDrawer(s) ==
  IF ~s.hidden THEN s
  ELSE LET s1 == setAria([s EXCEPT !.lastActiveElement = s.activeElement,
                                   !.hidden = FALSE, !.navOpenClass = TRUE], TRUE)
           f  == getFocusable(s1)
           s2 == IF Len(f) > 0 THEN focus(s1, f[1]) ELSE s1
       IN [s2 EXCEPT !.keydownListener = TRUE, !.clickListener = TRUE]

\* closeDrawer()
closeDrawer(s) ==
  IF s.hidden THEN s
  ELSE LET s1 == setAria([s EXCEPT !.hidden = TRUE, !.navOpenClass = FALSE], FALSE)
           s2 == [s1 EXCEPT !.keydownListener = FALSE, !.clickListener = FALSE]
       IN IF s2.lastActiveElement # "null" THEN focus(s2, s2.lastActiveElement) ELSE s2

\* The elements sequential focus navigation visits, in document order.
Tabbable(s) == SelectSeq(DocOrder, LAMBDA e : Focusable(s, e))

IndexOf(seq, e) == CHOOSE i \in 1..Len(seq) : seq[i] = e

\* The browser's own handling of Tab / Shift+Tab (no preventDefault): focus
\* moves to the next / previous tabbable element, wrapping around; from the
\* body it enters the document at its first / last tabbable element.
defaultTab(s, shift) ==
  LET t == Tabbable(s)
      n == Len(t)
  IN IF n = 0 THEN s
     ELSE IF s.activeElement \notin Range(t)
       THEN [s EXCEPT !.activeElement = IF shift THEN t[n] ELSE t[1]]
       ELSE LET i == IndexOf(t, s.activeElement)
            IN [s EXCEPT !.activeElement =
                  IF shift THEN (IF i = 1 THEN t[n] ELSE t[i - 1])
                           ELSE (IF i = n THEN t[1] ELSE t[i + 1])]

\* handleKeydown(event), followed by the browser's default action when the
\* handler did not call preventDefault.
handleKeydown(s, key, shift) ==
  IF key = "Escape" THEN closeDrawer(s)
  ELSE IF key # "Tab" THEN s
  ELSE LET f == getFocusable(s)
       IN IF Len(f) = 0 THEN s
          ELSE IF ~shift /\ s.activeElement = f[Len(f)] THEN focus(s, f[1])
          ELSE IF shift /\ s.activeElement = f[1] THEN focus(s, f[Len(f)])
          ELSE defaultTab(s, shift)

\* handleClickOutside(event)
handleClickOutside(s, target) ==
  IF InDrawer(target) THEN s ELSE closeDrawer(s)

\* The click listener of every toggle control.
toggleClick(s) == IF s.hidden THEN openDrawer(s) ELSE closeDrawer(s)

\* The click listener of every link of the drawer.
linkClick(s) == IF s.narrow THEN closeDrawer(s) ELSE s

\* The resize listener of the window.
onResize(s) == IF ~s.narrow THEN closeDrawer(s) ELSE s

\* Dispatch of one click: the capturing document listener first (when it was
\* installed before the dispatch began), then the target's own listener.
dispatchClick(s, target) ==
  LET s1 == IF s.clickListener THEN handleClickOutside(s, target) ELSE s
  IN IF target \in Toggles THEN toggleClick(s1)
     ELSE IF target \in DrawerLinks THEN linkClick(s1)
     ELSE s1

\* The browser's focus fix-up when it next updates the rendering: a focused
\* element that is no longer rendered loses focus to the body.
fixup(s) ==
  IF s.activeElement \in DrawerEls /\ ~Focusable(s, s.activeElement)
  THEN [s EXCEPT !.activeElement = "body"] ELSE s

\* The state after a task: the variables take the values of s, fixed up.
Commit(s0) ==
  LET s == fixup(s0)
  IN /\ hidden' = s.hidden
     /\ lastActiveElement' = s.lastActiveElement
     /\ activeElement' = s.activeElement
     /\ ariaExpanded' = s.ariaExpanded
     /\ navOpenClass' = s.navOpenClass
     /\ keydownListener' = s.keydownListener
     /\ clickListener' = s.clickListener
     /\ present' = s.present
     /\ narrow' = s.narrow

Op(name, key, shift, target) ==
  [op |-> name, key |-> key, shift |-> shift, target |-> target,
   wasHidden |-> hidden, prevActive |-> activeElement, trap |-> trapOnly]

\* History of the opening: opened tells whether openDrawer took effect in the
\* task, pre is the focus at that moment, keepsTrap whether the task was a Tab
\* key press or a redundant openDrawer call.
Track(opened, pre, keepsTrap) ==
  IF opened THEN focusBeforeOpen' = pre /\ trapOnly' = TRUE
  ELSE focusBeforeOpen' = focusBeforeOpen /\ trapOnly' = (trapOnly /\ keepsTrap)

\* The state when the script has run: the drawer starts hidden (the page
\* marks it up with the hidden attribute), no listener of openDrawer is
\* installed yet, focus is on the body or on an element of the page, and the
\* toggles carry aria-expanded="false" or no aria-expanded at all.
DrawerInit ==
  /\ hidden = TRUE
  /\ lastActiveElement = "null"
  /\ activeElement \in {"body", "toggleOut", "other"}
  /\ \E a \in {"none", "false"} : ariaExpanded = [b \in Toggles |-> a]
  /\ navOpenClass = FALSE
  /\ keydownListener = FALSE
  /\ clickListener = FALSE
  /\ present \in SUBSET DrawerEls
  /\ narrow \in BOOLEAN
  /\ lastOp = [op |-> "load", key |-> "", shift |-> FALSE, target |-> "",
               wasHidden |-> TRUE, prevActive |-> "body", trap |-> FALSE]
  /\ focusBeforeOpen = "null"
  /\ trapOnly = FALSE

\* A direct call of openDrawer().
OpenCall ==
  /\ lastOp' = Op("openDrawer", "", FALSE, "")
  /\ Commit(openDrawer(DrawerState))
  /\ Track(hidden, activeElement, TRUE)
  /\ UNCHANGED <<walletVars, monitorVars>>

\* A direct call of closeDrawer().
CloseCall ==
  /\ lastOp' = Op("closeDrawer", "", FALSE, "")
  /\ Commit(closeDrawer(DrawerState))
  /\ Track(FALSE, activeElement, FALSE)
  /\ UNCHANGED <<walletVars, monitorVars>>

\* A key press: handleKeydown when installed, else the browser's default.
Keydown ==
  \E key \in Keys, shift \in BOOLEAN :
    LET s == IF keydownListener THEN handleKeydown(DrawerState, key, shift)
             ELSE IF key = "Tab" THEN defaultTab(DrawerState, shift)
             ELSE DrawerState
    IN /\ lastOp' = Op("keydown", key, shift, "")
       /\ Commit(s)
       /\ Track(FALSE, activeElement, key = "Tab")
       /\ UNCHANGED <<walletVars, monitorVars>>

\* A mouse click on target.  Pressing the button may first move focus to the
\* target (to the body for a non-focusable one); not every browser does so
\* for buttons, and a synthetic click never does.
Click ==
  \E target \in ClickTargets, moves \in BOOLEAN :
    /\ InDrawer(target) => ~hidden /\ (target \in DrawerEls => target \in present)
    /\ LET s0 == IF ~moves THEN DrawerState
                 ELSE IF Focusable(DrawerState, target) THEN focus(DrawerState, target)
                 ELSE [DrawerState EXCEPT !.activeElement = "body"]
           mid == IF s0.clickListener THEN handleClickOutside(s0, target) ELSE s0
           s  == dispatchClick(s0, target)
       IN /\ lastOp' = Op("click", "", moves, target)
          /\ Commit(s)
          /\ Track(mid.hidden /\ ~s.hidden, mid.activeElement, FALSE)
          /\ UNCHANGED <<walletVars, monitorVars>>

\* The viewport changes width.
Resize ==
  \E n \in BOOLEAN :
    LET s == onResize([DrawerState EXCEPT !.narrow = n])
    IN /\ lastOp' = Op("resize", "", n, "")
       /\ Commit(s)
       /\ Track(FALSE, activeElement, FALSE)
       /\ UNCHANGED <<walletVars, monitorVars>>

\* The content of the drawer changes: elements appear, disappear, are disabled.
ContentChange ==
  \E p \in SUBSET DrawerEls :
    /\ p # present
    /\ LET s == [DrawerState EXCEPT !.present = p]
       IN /\ lastOp' = Op("content", "", FALSE, "")
          /\ Commit(s)
          /\ Track(FALSE, activeElement, FALSE)
          /\ UNCHANGED <<walletVars, monitorVars>>

(***************************************************************************)
(* The wallet-connect widget.  An address is a sequence of characters;     *)
(* Undefined stands for JavaScript's undefined (the module never stores an *)
(* empty string in walletAddress).  The page holds the connect button and  *)
(* the address element the selectors name, and window.ethers is loaded.    *)
(***************************************************************************)
Undefined == <<>>
AddrLong == <<"0", "x", "A", "B", "C", "D", "E", "F", "1", "2", "3", "4", "5", "6", "7",
              "8", "9", "0">>
AddrShort == <<"0", "x", "1", "2", "3">>
Addrs == {AddrLong, AddrShort}
NotConnectedText == <<"N", "o", "t", " ", "c", "o", "n", "n", "e", "c", "t", "e", "d">>
MarkupText == <<"markup">>
UndefinedText == <<"u", "n", "d", "e", "f", "i", "n", "e", "d">>
\* The three characters the template literal of shortAddress holds between the
\* two slices (the bytes C3 A2, E2 82 AC, C2 A6 of the source file).
Separator == <<"a-circumflex", "euro", "broken-bar">>

\* The most handlers that may be suspended at an await at one time.
MaxHandlers == 2

\* shortAddress(address)
shortAddress(address) ==
  IF address = Undefined \/ Len(address) < 10 THEN address
  ELSE SubSeq(address, 1, 6) \o Separator
         \o SubSeq(address, Len(address) - 3, Len(address))

\* The module's variables and the DOM it writes, as one value.
WalletState ==
  [provider |-> provider, signer |-> signer, walletAddress |-> walletAddress,
   saving |-> saving, buttonText |-> buttonText, buttonClass |-> buttonClass,
   connectBound |-> connectBound, disconnectBound |-> disconnectBound,
   datasetAddress |-> datasetAddress, addrText |-> addrText, addrState |-> addrState]

\* addEventListener("click", f): a listener already registered is not added again.
addListener(n) == IF n = 0 THEN 1 ELSE n
\* removeEventListener("click", f)
removeListener(n) == IF n = 0 THEN 0 ELSE n - 1

\* A plausible slip: the connect handler is not removed when rendering connected.
renderConnectedKeepsConnect(w) ==
  [w EXCEPT !.buttonText = "Disconnect", !.buttonClass = "secondary",
            !.disconnectBound = addListener(@),
            !.datasetAddress = IF w.walletAddress = Undefined THEN UndefinedText
                               ELSE w.walletAddress,
            !.addrText = shortAddress(w.walletAddress), !.addrState = "connected"]

\* renderConnectedState()
renderConnectedState(w) ==
  [w EXCEPT !.buttonText = "Disconnect", !.buttonClass = "secondary",
            !.connectBound = removeListener(@), !.disconnectBound = addListener(@),
            !.datasetAddress = IF w.walletAddress = Undefined THEN UndefinedText
                               ELSE w.walletAddress,
            !.addrText = shortAddress(w.walletAddress), !.addrState = "connected"]

\* renderDisconnectedState(label)
renderDisconnectedState(w, label) ==
  [w EXCEPT !.buttonText = label, !.buttonClass = "primary",
            !.disconnectBound = removeListener(@), !.connectBound = addListener(@),
            !.datasetAddress = Undefined,
            !.addrText = NotConnectedText, !.addrState = "disconnected"]

\* A plausible slip: persistWallet without its single-flight guard.
persistWalletAlwaysIssues(w) == TRUE

\* persistWallet(address), line 109: whether the call goes on to issue the POST.
persistWalletIssues(w) == ~w.saving

\* persistWallet(address), line 110: the guard taken before the request.
persistWalletBegin(w) == [w EXCEPT !.saving = TRUE]

\* persistWallet(address), lines 117-121: the request settled (ok or not).
persistWalletEnd(w, ok) == [w EXCEPT !.saving = FALSE]

\* handleDisconnectClick, lines 90-92: the local state cleared.
clearLocal(w) ==
  [w EXCEPT !.walletAddress = Undefined, !.provider = "undefined",
            !.signer = "undefined"]

\* A plausible slip: the catch block of handleConnectClick only logs.
connectFailedOnlyLogs(w) == w

\* The catch block of handleConnectClick.
connectFailed(w) == renderDisconnectedState(w, "Connect wallet")

\* handleConnectClick, lines 68-77: what the handler awaits next once the
\* modal part is over; "throw" when no provider is to be had.
providerNext(w) ==
  IF w.provider = "undefined"
  THEN IF ethereum THEN "requestAccounts" ELSE "throw"
  ELSE "getSigner"

\* A suspended handler: which handler, the await it is suspended at, and the
\* address argument of the persistWallet call it is in.
Task(kind, pc, addr) == [kind |-> kind, pc |-> pc, addr |-> addr]
TaskVals ==
  {Task("connect", pc, Undefined) :
     pc \in {"openModal", "getWalletProvider", "requestAccounts", "getSigner",
             "getAddress"}}
  \cup {Task(k, "post", a) : k \in {"connect", "accounts"}, a \in Addrs}
  \cup {Task(k, "delete", Undefined) : k \in {"disconnect", "accounts"}}

NumTasks == Cardinality({x \in TaskVals \X (1..(MaxHandlers + 1)) : x[2] <= tasks[x[1]]})
PostsInFlight ==
  Cardinality({x \in {t \in TaskVals : t.pc = "post"} \X (1..(MaxHandlers + 1)) :
                 x[2] <= tasks[x[1]]})

spawn(b, t) == [b EXCEPT ![t] = @ + 1]
finish(b, t) == [b EXCEPT ![t] = @ - 1]

WCommit(w) ==
  /\ provider' = w.provider
  /\ signer' = w.signer
  /\ walletAddress' = w.walletAddress
  /\ saving' = w.saving
  /\ buttonText' = w.buttonText
  /\ buttonClass' = w.buttonClass
  /\ connectBound' = w.connectBound
  /\ disconnectBound' = w.disconnectBound
  /\ datasetAddress' = w.datasetAddress
  /\ addrText' = w.addrText
  /\ addrState' = w.addrState

WalletInit ==
  /\ modal \in BOOLEAN
  /\ ethereum \in BOOLEAN
  /\ provider = "undefined"
  /\ signer = "undefined"
  /\ walletAddress = Undefined
  /\ saving = FALSE
  /\ buttonText = "markup"
  /\ buttonClass = "markup"
  /\ connectBound = 0
  /\ disconnectBound = 0
  /\ datasetAddress = Undefined
  /\ addrText = MarkupText
  /\ addrState = "markup"
  /\ accountsListener = FALSE
  /\ initPc = "loading"
  /\ tasks = [t \in TaskVals |-> 0]
  /\ serverSession \in Addrs \cup {Undefined}
  /\ lastRoundTrip = Undefined
  /\ wLast = "load"

\* api.init up to its await of hydrateFromServer's fetch.
InitBind ==
  /\ initPc = "loading"
  /\ initPc' = "hydrating"
  /\ WCommit([WalletState EXCEPT !.connectBound = addListener(@)])
  /\ wLast' = "bind"
  /\ UNCHANGED <<drawerVars, monitorVars, modal, ethereum, accountsListener, tasks, serverSession, lastRoundTrip>>

\* hydrateFromServer(button) once GET /authz/session has settled: the body is
\* ok with the address the server holds (if it holds one), or not ok, or the
\* request failed, or the body does not parse; then the rest of api.init.
\* A plausible slip: the catch block of hydrateFromServer only logs.
hydrateCatchOnlyLogs(w, outcome) ==
  IF outcome = "ok" /\ serverSession # Undefined
  THEN renderConnectedState([w EXCEPT !.walletAddress = serverSession])
  ELSE IF outcome \in {"fail", "badBody"} THEN w
  ELSE renderDisconnectedState(w, "Connect wallet")

hydrateFromServer(w, outcome) ==
  IF outcome = "ok" /\ serverSession # Undefined
  THEN renderConnectedState([w EXCEPT !.walletAddress = serverSession])
  ELSE renderDisconnectedState(w, "Connect wallet")

HydrateDone ==
  \E outcome \in {"ok", "notOk", "fail", "badBody"} :
    /\ initPc = "hydrating"
    /\ initPc' = "ready"
    /\ WCommit(hydrateFromServer(WalletState, outcome))
    /\ accountsListener' = ethereum
    /\ lastRoundTrip' = IF outcome = "ok" /\ serverSession # Undefined
                        THEN serverSession ELSE lastRoundTrip
    /\ wLast' = IF outcome = "ok"
                THEN (IF serverSession # Undefined THEN "hydratedAddress"
                      ELSE "hydratedNoAddress")
                ELSE IF outcome = "notOk" THEN "hydratedNotOk"
                ELSE IF outcome = "fail" THEN "hydrateFailed"
                ELSE "hydrateBadBody"
    /\ UNCHANGED <<drawerVars, monitorVars, modal, ethereum, tasks, serverSession>>

\* The handler goes on after the modal part (lines 68-77), from state w with
\* the bag b of the other suspended handlers.
ConnectProceed(w, b) ==
  LET nxt == providerNext(w)
  IN IF nxt = "throw"
     THEN WCommit(connectFailed(w)) /\ tasks' = b /\ wLast' = "connectFailed"
     ELSE WCommit(w) /\ tasks' = spawn(b, Task("connect", nxt, Undefined))
          /\ wLast' = "connectStep"

\* A click on the button while handleConnectClick is bound.
ConnectClick ==
  /\ connectBound > 0
  /\ NumTasks < MaxHandlers
  /\ IF modal
     THEN /\ WCommit(WalletState)
          /\ tasks' = spawn(tasks, Task("connect", "openModal", Undefined))
          /\ wLast' = "connectStep"
     ELSE ConnectProceed(WalletState, tasks)
  /\ UNCHANGED <<drawerVars, monitorVars, modal, ethereum, accountsListener, initPc, serverSession, lastRoundTrip>>

\* modal.openModal() settled.
OpenModalDone ==
  \E ok \in BOOLEAN :
    LET t == Task("connect", "openModal", Undefined)
    IN /\ tasks[t] > 0
       /\ IF ok
          THEN /\ WCommit(WalletState)
               /\ tasks' = spawn(finish(tasks, t),
                                 Task("connect", "getWalletProvider", Undefined))
               /\ wLast' = "connectStep"
          ELSE /\ WCommit(connectFailed(WalletState))
               /\ tasks' = finish(tasks, t)
               /\ wLast' = "connectFailed"
       /\ UNCHANGED <<drawerVars, monitorVars, modal, ethereum, accountsListener, initPc, serverSession,
                      lastRoundTrip>>

\* modal.getWalletProvider?.() settled: with a provider, with none, or rejected.
GetWalletProviderDone ==
  \E res \in {"provider", "none", "throw"} :
    LET t == Task("connect", "getWalletProvider", Undefined)
    IN /\ tasks[t] > 0
       /\ IF res = "throw"
          THEN /\ WCommit(connectFailed(WalletState))
               /\ tasks' = finish(tasks, t)
               /\ wLast' = "connectFailed"
          ELSE ConnectProceed(IF res = "provider"
                              THEN [WalletState EXCEPT !.provider = "modal"]
                              ELSE WalletState, finish(tasks, t))
       /\ UNCHANGED <<drawerVars, monitorVars, modal, ethereum, accountsListener, initPc, serverSession,
                      lastRoundTrip>>

\* injectedProvider.request?.({method: 'eth_requestAccounts'}) settled.
RequestAccountsDone ==
  \E ok \in BOOLEAN :
    LET t == Task("connect", "requestAccounts", Undefined)
    IN /\ tasks[t] > 0
       /\ IF ok
          THEN /\ WCommit([WalletState EXCEPT !.provider = "injected"])
               /\ tasks' = spawn(finish(tasks, t), Task("connect", "getSigner", Undefined))
               /\ wLast' = "connectStep"
          ELSE /\ WCommit(connectFailed(WalletState))
               /\ tasks' = finish(tasks, t)
               /\ wLast' = "connectFailed"
       /\ UNCHANGED <<drawerVars, monitorVars, modal, ethereum, accountsListener, initPc, serverSession,
                      lastRoundTrip>>

\* provider.getSigner() settled.
GetSignerDone ==
  \E ok \in BOOLEAN :
    LET t == Task("connect", "getSigner", Undefined)
    IN /\ tasks[t] > 0
       /\ IF ok
          THEN /\ WCommit([WalletState EXCEPT !.signer = "signer"])
               /\ tasks' = spawn(finish(tasks, t), Task("connect", "getAddress", Undefined))
               /\ wLast' = "connectStep"
          ELSE /\ WCommit(connectFailed(WalletState))
               /\ tasks' = finish(tasks, t)
               /\ wLast' = "connectFailed"
       /\ UNCHANGED <<drawerVars, monitorVars, modal, ethereum, accountsListener, initPc, serverSession,
                      lastRoundTrip>>

\* A call of persistWallet(address) by handler kind from state w, b the bag
\* of the other suspended handlers: the POST is issued and the handler
\* suspends, or the call returns at once and the handler renders connected.
Persist(w, b, kind, address) ==
  IF persistWalletIssues(w)
  THEN /\ WCommit(persistWalletBegin(w))
       /\ tasks' = spawn(b, Task(kind, "post", address))
       /\ wLast' = "postIssued"
  ELSE /\ WCommit(renderConnectedState(w))
       /\ tasks' = b
       /\ wLast' = "persistSkipped"

\* signer.getAddress() settled; on success persistWallet is called.
GetAddressDone ==
  \E ok \in BOOLEAN, a \in Addrs :
    LET t == Task("connect", "getAddress", Undefined)
    IN /\ tasks[t] > 0
       /\ IF ok
          THEN Persist([WalletState EXCEPT !.walletAddress = a], finish(tasks, t),
                       "connect", a)
          ELSE /\ WCommit(connectFailed(WalletState))
               /\ tasks' = finish(tasks, t)
               /\ wLast' = "connectFailed"
       /\ UNCHANGED <<drawerVars, monitorVars, modal, ethereum, accountsListener, initPc, serverSession,
                      lastRoundTrip>>

\* POST /authz/session settled (the server stores the address when it
\* succeeds); persistWallet returns and its caller renders connected.
PostDone ==
  \E t \in {x \in TaskVals : x.pc = "post"}, ok \in BOOLEAN :
    /\ tasks[t] > 0
    /\ WCommit(renderConnectedState(persistWalletEnd(WalletState, ok)))
    /\ tasks' = finish(tasks, t)
    /\ serverSession' = IF ok THEN t.addr ELSE serverSession
    /\ lastRoundTrip' = IF ok THEN t.addr ELSE lastRoundTrip
    /\ wLast' = IF ok THEN "postOk" ELSE "postFailed"
    /\ UNCHANGED <<drawerVars, monitorVars, modal, ethereum, accountsListener, initPc>>

\* A click on the button while handleDisconnectClick is bound.
DisconnectClick ==
  /\ disconnectBound > 0
  /\ NumTasks < MaxHandlers
  /\ WCommit(clearLocal(WalletState))
  /\ tasks' = spawn(tasks, Task("disconnect", "delete", Undefined))
  /\ wLast' = "disconnectStart"
  /\ UNCHANGED <<drawerVars, monitorVars, modal, ethereum, accountsListener, initPc, serverSession, lastRoundTrip>>

\* DELETE /authz/session settled; handleDisconnectClick renders disconnected.
DeleteDone ==
  \E t \in {x \in TaskVals : x.pc = "delete"}, ok \in BOOLEAN :
    /\ tasks[t] > 0
    /\ WCommit(renderDisconnectedState(WalletState, "Connect wallet"))
    /\ tasks' = finish(tasks, t)
    /\ serverSession' = IF ok THEN Undefined ELSE serverSession
    /\ lastRoundTrip' = IF ok THEN Undefined ELSE lastRoundTrip
    /\ wLast' = IF ok THEN "disconnectDoneOk" ELSE "disconnectDoneFailed"
    /\ UNCHANGED <<drawerVars, monitorVars, modal, ethereum, accountsListener, initPc>>

\* handleAccountsChanged(accounts) up to its first await.
AccountsChangedWith(accounts) ==
  /\ accountsListener
  /\ NumTasks < MaxHandlers
  /\ IF Len(accounts) = 0
     THEN /\ WCommit(clearLocal(WalletState))
          /\ tasks' = spawn(tasks, Task("accounts", "delete", Undefined))
          /\ wLast' = "disconnectStart"
     ELSE Persist([WalletState EXCEPT !.walletAddress = accounts[1]], tasks,
                  "accounts", accounts[1])
  /\ UNCHANGED <<drawerVars, monitorVars, modal, ethereum, accountsListener, initPc, serverSession,
                 lastRoundTrip>>

\* The wallet reports accountsChanged with an empty or a non-empty list.
AccountsChanged ==
  \E accounts \in {<<>>} \cup {<<a>> : a \in Addrs} : AccountsChangedWith(accounts)

(***************************************************************************)
(* The monitoring table (wallet-connect.js lines 199-270).  A snapshot     *)
(* carries a run_id, a status and the two P&L fields; the remaining cells   *)
(* of a row (market, prices, timestamp) are copied or formatted the same   *)
(* way and are left out.  A field value is a number, a non-numeric string  *)
(* or undefined (the field is missing).                                    *)
(***************************************************************************)
Num(n) == [k |-> "number", n |-> n, s |-> ""]
Str(s) == [k |-> "string", n |-> 0, s |-> s]
Undef == [k |-> "undefined", n |-> 0, s |-> ""]
NaN == [k |-> "NaN", n |-> 0, s |-> ""]

RunIds == {"run-a", "run-b"}
NoRunId == "undefined"        \* data without a (string) run_id
UnrealizedVals == {Num(1), Undef}
RealizedVals == {Num(2), Str("n/a")}

Snapshots ==
  [run_id : RunIds \cup {NoRunId}, status : {"running"},
   unrealized_pnl : UnrealizedVals, realized_pnl : RealizedVals]
NoSnapshot ==
  [run_id |-> "", status |-> "", unrealized_pnl |-> Undef, realized_pnl |-> Undef]

\* evt.data of a stream message: text that is not JSON, the JSON text null,
\* an envelope with ok false, an envelope with ok true and no data, or an
\* envelope with ok true and a data payload.
Messages ==
  [kind : {"invalidJson", "null", "okFalse", "noData"}, data : {NoSnapshot}]
    \cup [kind : {"data"}, data : Snapshots]

MaxErrors == 2                \* stream errors explored
ReconnectDelayMs == 1500      \* setTimeout(connectSSE, 1500)

\* Number(value)
Number(v) == IF v.k = "number" THEN v ELSE NaN

\* String(value)
String(v) ==
  CASE v.k = "string" -> v.s
    [] v.k = "undefined" -> "undefined"
    [] v.k = "NaN" -> "NaN"
    [] OTHER -> "number"

\* formatNum(value): the locale form of a number, else the value's string form.
formatNum(v) ==
  IF Number(v) = NaN
  THEN [fmt |-> "string", n |-> 0, s |-> String(v)]
  ELSE [fmt |-> "locale", n |-> Number(v).n, s |-> ""]

\* value || 0
OrZero(v) ==
  IF v.k \in {"undefined", "NaN"} \/ v = Num(0) \/ v = Str("") THEN Num(0) ELSE v

\* Number(a || 0) + Number(b || 0)
Plus(a, b) ==
  IF Number(OrZero(a)) = NaN \/ Number(OrZero(b)) = NaN
  THEN NaN
  ELSE Num(Number(OrZero(a)).n + Number(OrZero(b)).n)

\* s.run_id.slice exists only when run_id is a string.
Renderable(s) == s.run_id # NoRunId

\* renderRow(s): the tr element, by its id and the cells modelled.
renderRow(s) ==
  [id |-> s.run_id, status |-> s.status,
   unrealized |-> formatNum(s.unrealized_pnl),
   realized |-> formatNum(s.realized_pnl),
   total |-> formatNum(Plus(s.realized_pnl, s.unrealized_pnl))]

\* The state the monitor's functions read and write.
MonitorState ==
  [hasEventSource |-> hasEventSource, tbody |-> tbody, rows |-> rows,
   placeholder |-> placeholder, esOpen |-> esOpen, timers |-> timers,
   threw |-> FALSE]

\* Indices of the rows whose id is run-<run_id>.
RowsOf(rs, run_id) == {i \in 1..Len(rs) : rs[i].id = run_id}

Min(S) == CHOOSE i \in S : \A j \in S : i <= j

\* Variant of upsertRow that removes the empty row before rendering the new one.
upsertRowEmptyFirst(m, snapshot) ==
  IF ~m.tbody THEN m
  ELSE IF RowsOf(m.rows, snapshot.run_id) # {}
       THEN IF ~Renderable(snapshot) THEN [m EXCEPT !.threw = TRUE]
            ELSE [m EXCEPT !.rows[Min(RowsOf(m.rows, snapshot.run_id))] =
                                  renderRow(snapshot)]
       ELSE IF ~Renderable(snapshot)
            THEN [m EXCEPT !.placeholder = FALSE, !.threw = TRUE]
            ELSE [m EXCEPT !.placeholder = FALSE,
                           !.rows = Append(@, renderRow(snapshot))]

\* Variant of upsertRow that appends the row whether or not one exists.
upsertRowAlwaysAppends(m, snapshot) ==
  IF ~m.tbody THEN m
  ELSE IF ~Renderable(snapshot) THEN [m EXCEPT !.threw = TRUE]
  ELSE [m EXCEPT !.placeholder = FALSE, !.rows = Append(@, renderRow(snapshot))]

\* upsertRow(snapshot): no table body, nothing happens; renderRow throws
\* before the table is touched; else the row replaces the existing one or is
\* appended after the empty row has been removed.
upsertRow(m, snapshot) ==
  IF ~m.tbody THEN m
  ELSE IF ~Renderable(snapshot) THEN [m EXCEPT !.threw = TRUE]
  ELSE IF RowsOf(m.rows, snapshot.run_id) # {}
       THEN [m EXCEPT !.rows[Min(RowsOf(m.rows, snapshot.run_id))] =
                             renderRow(snapshot)]
       ELSE [m EXCEPT !.placeholder = FALSE,
                      !.rows = Append(@, renderRow(snapshot))]

\* es.onmessage: JSON.parse and upsertRow run inside try; the catch logs.
onmessage(m, msg) ==
  LET tried == IF msg.kind = "invalidJson" THEN [m EXCEPT !.threw = TRUE]
               ELSE IF msg.kind = "data" THEN upsertRow(m, msg.data)
               ELSE m
  IN  [tried EXCEPT !.threw = FALSE]

\* connectSSE(): new EventSource inside try; without EventSource the
\* ReferenceError is caught and logged.
connectSSE(m) ==
  IF m.hasEventSource THEN [m EXCEPT !.esOpen = @ + 1] ELSE m

\* Variant of es.onerror that schedules no reconnect.
onerrorNoRetry(m) == [m EXCEPT !.esOpen = @ - 1]

\* Variant of es.onerror that leaves the failed connection open.
onerrorKeepsOpen(m) == [m EXCEPT !.timers = Append(@, ReconnectDelayMs)]

\* es.onerror: es.close(); setTimeout(connectSSE, 1500).
onerror(m) ==
  [m EXCEPT !.esOpen = @ - 1, !.timers = Append(@, ReconnectDelayMs)]

\* Write a MonitorState back at the end of a handler.
MCommit(m) ==
  /\ rows' = m.rows /\ placeholder' = m.placeholder /\ esOpen' = m.esOpen
  /\ timers' = m.timers /\ uncaught' = (uncaught \/ m.threw)
  /\ openedCount' = openedCount + (IF m.esOpen > esOpen THEN 1 ELSE 0)

MonitorInit ==
  /\ readyState \in {"loading", "interactive", "complete"}
  /\ domListener = FALSE /\ started = FALSE
  /\ hasEventSource \in BOOLEAN /\ tbody \in BOOLEAN
  /\ rows = <<>> /\ placeholder \in BOOLEAN /\ (placeholder => tbody)
  /\ esOpen = 0 /\ timers = <<>> /\ uncaught = FALSE
  /\ latest = [r \in RunIds |-> NoSnapshot]
  /\ errorCount = 0 /\ openedCount = 0 /\ mLast = "load"

\* The script runs (lines 266-270).
MonitorScript ==
  /\ ~started
  /\ started' = TRUE
  /\ IF readyState \in {"complete", "interactive"}
     THEN MCommit(connectSSE(MonitorState)) /\ UNCHANGED domListener
     ELSE MCommit(MonitorState) /\ domListener' = TRUE
  /\ mLast' = "script"
  /\ UNCHANGED <<drawerVars, walletVars, readyState, hasEventSource, tbody, latest,
                 errorCount>>

\* The document finishes parsing; a registered connectSSE runs.
DOMContentLoaded ==
  /\ readyState = "loading"
  /\ readyState' = "interactive"
  /\ MCommit(IF domListener THEN connectSSE(MonitorState) ELSE MonitorState)
  /\ mLast' = "DOMContentLoaded"
  /\ UNCHANGED <<drawerVars, walletVars, domListener, started, hasEventSource, tbody,
                 latest, errorCount>>

\* A message arrives on the open connection.
Message(msg) ==
  /\ esOpen > 0
  /\ MCommit(onmessage(MonitorState, msg))
  /\ latest' = IF msg.kind = "data" /\ Renderable(msg.data)
               THEN [latest EXCEPT ![msg.data.run_id] = msg.data]
               ELSE latest
  /\ mLast' = IF msg.kind # "data" THEN msg.kind
              ELSE IF ~Renderable(msg.data) THEN "unrenderable"
              ELSE IF latest[msg.data.run_id] = NoSnapshot THEN "snapshotNew"
              ELSE "snapshotKnown"
  /\ UNCHANGED <<drawerVars, walletVars, readyState, domListener, started,
                 hasEventSource, tbody, errorCount>>

StreamMessage == \E msg \in Messages : Message(msg)

\* The open connection reports an error.
StreamError ==
  /\ esOpen > 0
  /\ errorCount < MaxErrors
  /\ MCommit(onerror(MonitorState))
  /\ errorCount' = errorCount + 1
  /\ mLast' = "error"
  /\ UNCHANGED <<drawerVars, walletVars, readyState, domListener, started,
                 hasEventSource, tbody, latest>>

\* The oldest pending reconnect timer fires: connectSSE runs.
TimerFire ==
  /\ timers # <<>>
  /\ MCommit(connectSSE([MonitorState EXCEPT !.timers = Tail(@)]))
  /\ mLast' = "timer"
  /\ UNCHANGED <<drawerVars, walletVars, readyState, domListener, started,
                 hasEventSource, tbody, latest, errorCount>>

(***************************************************************************)
(* The specifications: one per script, the other script at rest.           *)
(***************************************************************************)
DrawerAtRest ==
  /\ hidden = TRUE /\ lastActiveElement = "null" /\ activeElement = "body"
  /\ ariaExpanded = [b \in Toggles |-> "none"] /\ navOpenClass = FALSE
  /\ keydownListener = FALSE /\ clickListener = FALSE /\ present = {}
  /\ narrow = FALSE
  /\ lastOp = [op |-> "load", key |-> "", shift |-> FALSE, target |-> "",
               wasHidden |-> TRUE, prevActive |-> "body", trap |-> FALSE]
  /\ focusBeforeOpen = "null" /\ trapOnly = FALSE

WalletAtRest ==
  /\ WalletInit /\ modal = FALSE /\ ethereum = FALSE /\ serverSession = Undefined

MonitorAtRest ==
  /\ MonitorInit /\ readyState = "loading" /\ hasEventSource = FALSE /\ tbody = FALSE

InitDrawer == DrawerInit /\ WalletAtRest /\ MonitorAtRest
NextDrawer == OpenCall \/ CloseCall \/ Keydown \/ Click \/ Resize \/ ContentChange
SpecDrawer == InitDrawer /\ [][NextDrawer]_vars

InitWallet == WalletInit /\ DrawerAtRest /\ MonitorAtRest
NextWallet ==
  \/ InitBind \/ HydrateDone \/ ConnectClick \/ OpenModalDone \/ GetWalletProviderDone
  \/ RequestAccountsDone \/ GetSignerDone \/ GetAddressDone \/ PostDone
  \/ DisconnectClick \/ DeleteDone \/ AccountsChanged
SpecWallet == InitWallet /\ [][NextWallet]_vars

InitMonitor == MonitorInit /\ DrawerAtRest /\ WalletAtRest
NextMonitor ==
  MonitorScript \/ DOMContentLoaded \/ StreamMessage \/ StreamError \/ TimerFire
SpecMonitor == InitMonitor /\ [][NextMonitor]_vars

\* Browser timers fire: a pending reconnect timer is not postponed forever.
SpecMonitorFair == SpecMonitor /\ WF_vars(TimerFire)

(***************************************************************************)
(* Claims about the navigation drawer, checked under SpecDrawer.           *)
(***************************************************************************)

\* C1: after a call of openDrawer the drawer is visible, after a call of
\* closeDrawer it is hidden, whatever calls and events came before.
C1_LastCallDecides ==
  /\ lastOp.op = "openDrawer" => ~hidden
  /\ lastOp.op = "closeDrawer" => hidden

\* C1 witness: closeDrawer was called on an open drawer and hid it.
C1_Witness == lastOp.op = "closeDrawer" /\ ~lastOp.wasHidden /\ hidden

\* C2: a Tab or Shift+Tab key press while the drawer is open never moves focus
\* to an element outside the drawer's current focusable set.
C2_TabStaysInDrawer ==
  (/\ lastOp.op = "keydown" /\ lastOp.key = "Tab" /\ ~lastOp.wasHidden
   /\ activeElement # lastOp.prevActive)
  => activeElement \in Range(getFocusable(DrawerState))

\* C3: the drawer was opened while E had focus, only Tab / Shift+Tab presses
\* and redundant openDrawer calls followed, and Escape is pressed: the drawer
\* is closed and focus is on E.
C3_EscapeRestoresFocus ==
  (lastOp.op = "keydown" /\ lastOp.key = "Escape" /\ ~lastOp.wasHidden /\ lastOp.trap)
  => hidden /\ activeElement = focusBeforeOpen

\* C4: after a click on a target outside the drawer while the drawer is open,
\* once all click listeners have run, the drawer is closed.
C4_OutsideClickCloses ==
  (lastOp.op = "click" /\ ~lastOp.wasHidden /\ ~InDrawer(lastOp.target)) => hidden

\* C5: openDrawer on an open drawer and closeDrawer on a closed drawer change
\* neither visibility, captured element, focus, aria-expanded nor listeners.
C5_RedundantCallsAreNoOps ==
  [][((lastOp'.op = "openDrawer" /\ ~hidden) \/ (lastOp'.op = "closeDrawer" /\ hidden))
       => UNCHANGED <<hidden, lastActiveElement, activeElement, ariaExpanded,
                      navOpenClass, keydownListener, clickListener>>]_vars

\* C5 witness: openDrawer was called on a drawer that was already open, with
\* focus moved off the element the opening had focused.
C5_Witness ==
  /\ lastOp.op = "openDrawer" /\ ~lastOp.wasHidden
  /\ activeElement \in DrawerEls /\ activeElement # lastActiveElement

(***************************************************************************)
(* Claims about the wallet-connect widget, checked under SpecWallet.       *)
(***************************************************************************)

\* The UI shows the connected state.
UIConnected == buttonText = "Disconnect" /\ addrState = "connected"

\* C6: whenever the UI shows the connected state, the session endpoint holds
\* a session for the displayed address, confirmed by a successful GET or POST.
C6_ConnectedImpliesSession ==
  UIConnected => serverSession = datasetAddress /\ lastRoundTrip = datasetAddress

\* C7: when init is over and no handler is suspended, walletAddress is the
\* result of the last successful session round trip (empty after a DELETE or
\* when there was none).
C7_AddressIsLastRoundTrip ==
  (initPc = "ready" /\ NumTasks = 0) => walletAddress = lastRoundTrip

\* C8: when handleDisconnectClick completes, whether DELETE succeeded or not,
\* the button shows 'Connect wallet', the label 'Not connected' in state
\* 'disconnected', and address, provider and signer are cleared.
C8_DisconnectEndsDisconnected ==
  wLast \in {"disconnectDoneOk", "disconnectDoneFailed"}
  => /\ buttonText = "Connect wallet"
     /\ addrText = NotConnectedText /\ addrState = "disconnected"
     /\ walletAddress = Undefined /\ provider = "undefined" /\ signer = "undefined"

\* C9: once init has bound the button, exactly one of the two click handlers
\* is registered, once, and it is the disconnect handler iff the UI shows the
\* connected state.
C9_OneHandlerBound ==
  initPc # "loading"
  => /\ connectBound + disconnectBound = 1
     /\ disconnectBound = 1 <=> UIConnected

\* C9 witness: a completed persist swapped the handlers: the UI is connected
\* and the disconnect handler is the one bound.
C9_Witness == wLast = "postOk" /\ UIConnected /\ disconnectBound = 1 /\ connectBound = 0

\* C10: at most one POST /authz/session is in flight, the guard is held
\* exactly while one is; a persistWallet call made while one is in flight
\* issues none; the guard is released when the request settles, ok or not.
C10_SingleFlight ==
  /\ [](PostsInFlight <= 1 /\ (saving <=> PostsInFlight = 1))
  /\ [][/\ (saving /\ wLast' \in {"postIssued", "persistSkipped"})
            => PostsInFlight' = PostsInFlight
        /\ wLast' \in {"postOk", "postFailed"}
            => ~saving' /\ PostsInFlight' = PostsInFlight - 1]_vars

\* C10 witness: persistWallet was called while a POST was in flight and
\* returned without issuing a request.
C10_Witness == wLast = "persistSkipped" /\ saving /\ PostsInFlight = 1

\* The shortened form the specification gives: the address itself when it is
\* shorter than 10 characters, else its first 6 characters, one ellipsis
\* character and its last 4 characters.
SpecShortForm(address) ==
  IF Len(address) < 10 THEN address
  ELSE SubSeq(address, 1, 6) \o <<"ellipsis">>
         \o SubSeq(address, Len(address) - 3, Len(address))

\* C11: hydration that returns ok with an address sets walletAddress to it
\* and renders connected: button 'Disconnect', label the first 6 characters,
\* an ellipsis and the last 4 characters (the address itself under 10).
C11_HydratedLabel ==
  wLast = "hydratedAddress"
  => /\ walletAddress = serverSession
     /\ buttonText = "Disconnect"
     /\ addrText = SpecShortForm(walletAddress)

\* C12: hydration that returns not ok, no address, fails or does not parse
\* renders disconnected ('Connect wallet', 'Not connected'), and init goes on
\* (no error escaped hydrateFromServer).
C12_HydrationFailureDisconnected ==
  wLast \in {"hydratedNoAddress", "hydratedNotOk", "hydrateFailed", "hydrateBadBody"}
  => /\ buttonText = "Connect wallet"
     /\ addrText = NotConnectedText /\ addrState = "disconnected"
     /\ initPc = "ready" /\ accountsListener = ethereum

\* C12 witness: the GET failed after a connect click made during hydration had
\* rendered connected; the UI is back to disconnected.
C12_Witness ==
  wLast = "hydrateFailed" /\ walletAddress # Undefined /\ buttonText = "Connect wallet"

\* C13: a connect click that fails at any step ends with the UI disconnected,
\* the button reading 'Connect wallet' and the connect handler bound; neither
\* the failing step nor any earlier step of the click issued a POST.
C13_ConnectFailureDisconnected ==
  /\ [](wLast = "connectFailed"
         => /\ buttonText = "Connect wallet"
            /\ addrText = NotConnectedText /\ addrState = "disconnected"
            /\ connectBound = 1 /\ disconnectBound = 0)
  /\ [][wLast' \in {"connectFailed", "connectStep"}
          => /\ PostsInFlight' = PostsInFlight
             /\ saving' = saving /\ serverSession' = serverSession]_vars

\* C13 witness: the click failed at its last step, signer.getAddress(), with
\* provider and signer already set.
C13_Witness == wLast = "connectFailed" /\ signer = "signer" /\ provider # "undefined"

\* C14: on accountsChanged with an empty list the module does what a
\* disconnect click does (local state cleared, DELETE issued, disconnected
\* rendered when it settles); with a non-empty list the first account becomes
\* walletAddress, a POST carrying it is issued, and when the handler ends the
\* UI is rendered connected showing that account.
C14_AccountsChanged ==
  [][/\ AccountsChangedWith(<<>>)
        => /\ walletAddress' = Undefined /\ provider' = "undefined"
           /\ signer' = "undefined"
           /\ tasks' = spawn(tasks, Task("accounts", "delete", Undefined))
     /\ tasks' = finish(tasks, Task("accounts", "delete", Undefined))
        => /\ buttonText' = "Connect wallet"
           /\ addrText' = NotConnectedText /\ addrState' = "disconnected"
     /\ \A a \in Addrs :
          /\ AccountsChangedWith(<<a>>)
             => /\ walletAddress' = a
                /\ tasks' = spawn(tasks, Task("accounts", "post", a))
          /\ tasks' = finish(tasks, Task("accounts", "post", a))
             => /\ buttonText' = "Disconnect" /\ addrState' = "connected"
                /\ datasetAddress' = a /\ addrText' = shortAddress(a)]_vars

(***************************************************************************)
(* Claims about the monitoring table, checked under SpecMonitor.           *)
(***************************************************************************)

\* C15: on a page with the table body, after any sequence of snapshot
\* messages the table holds exactly one row per run_id received, each row
\* rendered from the most recent snapshot of its run_id, and no empty-state
\* row once a snapshot has been received; a snapshot with a new run_id adds
\* exactly one row, a snapshot with a known run_id keeps the number of rows.
C15_OneRowPerRun ==
  /\ [](tbody =>
          /\ \A r \in RunIds :
               Cardinality(RowsOf(rows, r)) = IF latest[r] = NoSnapshot THEN 0 ELSE 1
          /\ \A i \in 1..Len(rows) :
               /\ rows[i].id \in RunIds
               /\ rows[i] = renderRow(latest[rows[i].id])
          /\ (\E r \in RunIds : latest[r] # NoSnapshot) => ~placeholder)
  /\ [][\A s \in {x \in Snapshots : Renderable(x)} :
          (tbody /\ Message([kind |-> "data", data |-> s]))
            => IF latest[s.run_id] = NoSnapshot
               THEN Len(rows') = Len(rows) + 1 /\ ~placeholder'
               ELSE Len(rows') = Len(rows) /\ placeholder' = placeholder]_vars

\* C15 witness: a snapshot of a known run_id has replaced its row while the
\* table holds a row for every run_id.
C15_Witness ==
  /\ mLast = "snapshotKnown" /\ tbody /\ Len(rows) = Cardinality(RunIds)
  /\ ~placeholder

\* C16: a stream error closes the failed connection and schedules exactly one
\* reconnect with the fixed delay; after the n-th error, for every n explored,
\* a new connection is eventually opened.
C16_ReconnectAfterEveryError ==
  /\ [][StreamError => /\ esOpen' = esOpen - 1
                       /\ timers' = Append(timers, ReconnectDelayMs)]_vars
  /\ \A n \in 1..MaxErrors :
       (errorCount = n) ~> (errorCount = n /\ openedCount = n + 1 /\ esOpen = 1)

\* C16 witness: the connection has been reopened after the last error explored.
C16_Witness ==
  errorCount = MaxErrors /\ mLast = "timer" /\ esOpen = 1 /\ timers = <<>>

\* C17: a message that is not JSON, is null, has ok false, has no data, or has
\* data that cannot be rendered leaves rows, empty-state row, connection and
\* timers as they were, and no exception leaves the handler.
C17_BadMessageChangesNothing ==
  [][\A msg \in {x \in Messages : x.kind = "data" => ~Renderable(x.data)} :
       Message(msg) => /\ UNCHANGED <<rows, placeholder, esOpen, timers>>
                       /\ ~uncaught']_vars

\* C17 witness: data without a run_id arrived and the empty-state row is still
\* in the table body.
C17_Witness == mLast = "unrenderable" /\ tbody /\ placeholder /\ esOpen = 1

\* C19: once the script has run, open connections plus pending reconnect
\* timers never exceed one.
C19_OneStreamResource == started => esOpen + Len(timers) <= 1

\* C19 witness: after the last error explored the only resource is the timer.
C19_Witness == errorCount = MaxErrors /\ esOpen = 0 /\ Len(timers) = 1

(***************************************************************************)
(* Further claims about the drawer (SpecDrawer) and the wallet module      *)
(* (SpecWallet).                                                           *)
(***************************************************************************)

\* C18: the document-level keydown and outside-click listeners are installed
\* exactly while the drawer is open, and once the drawer has been opened
\* every toggle's aria-expanded equals the drawer's open state.
C18_ListenersAndAriaFollowDrawer ==
  /\ keydownListener = ~hidden
  /\ clickListener = ~hidden
  /\ focusBeforeOpen # "null"
       => \A b \in Toggles : ariaExpanded[b] = IF hidden THEN "false" ELSE "true"

\* C18 witness: a resize to the wide layout has closed the open drawer.
C18_Witness ==
  /\ lastOp.op = "resize" /\ ~lastOp.wasHidden /\ hidden
  /\ ~keydownListener /\ ~clickListener
  /\ \A b \in Toggles : ariaExpanded[b] = "false"

\* C20: whenever the UI shows the connected state, walletAddress is an
\* address and the address label is the shortened form of that address.
C20_ConnectedShowsLocalAddress ==
  UIConnected => walletAddress # Undefined /\ addrText = shortAddress(walletAddress)


====
